---- MODULE Spec2Model ----
(***************************************************************************)
(* Model of kinopio-tui (src/main.go): the bubbletea model, its Init and   *)
(* its Update function, together with the fetch commands the runtime runs  *)
(* in the background and whose results re-enter Update as messages.        *)
(*                                                                         *)
(* Abstractions:                                                           *)
(*  - string identifiers (Space.ID, Card.ID, Box.ID) are naturals >= 1;    *)
(*    0 is the empty string of a zero-valued struct.  Name, Url, X, Y and  *)
(*    BackgroundColor are functions of the identifier and are left out.    *)
(*  - list.Model, spinner.Model and table.Model are components of the      *)
(*    bubbles library.  Of list.Model the model keeps the item slice and   *)
(*    the index of the highlighted row.  main.go never writes that index:  *)
(*    whatever m.list.Update(msg) leaves there is chosen freely, a valid   *)
(*    row or none, so every result below holds for any behaviour of the    *)
(*    component's cursor handling.  Filtering is not modelled.             *)
(*  - a fetch command that has been returned by Init/Update and has not    *)
(*    yet delivered its message is counted in pendingList/pendingDetail;   *)
(*    delivery of its message and the Update call that handles it are one  *)
(*    step.  The server answers fetchSpaceDetails(id) with a space whose   *)
(*    ID is id, or with an error.                                          *)
(***************************************************************************)
EXTENDS Naturals, Sequences, FiniteSets

\* ---- bounds ----
MaxSpaces == 2    \* spaces the server knows
MaxCards == 1     \* cards of a space
MaxInFlight == 2  \* fetch commands running at once

BoxCounts == 0..1

SpaceIds == 1..MaxSpaces
Errors == {"status404", "network"}
NoError == ""

\* ---- data (src/main.go:29-48) ----
Card(id) == [ID |-> id]
ZeroCard == Card(0)
CardSeq(n) == [i \in 1..n |-> Card(i)]
BoxSeq(n) == [i \in 1..n |-> i]

Space(id, cards, boxes) == [ID |-> id, Cards |-> cards, Boxes |-> boxes]
ZeroSpace == Space(0, <<>>, <<>>)

\* what GET /user/spaces can decode to: a list of n distinct spaces, without their
\* detail.  main.go never compares or orders identifiers, so one list per length
\* stands for all of them; it is taken in descending order of ID.
SpaceList(n) == [i \in 1..n |-> Space(n + 1 - i, <<>>, <<>>)]
SpaceLists == { SpaceList(n) : n \in 0..MaxSpaces }

\* what GET /space/<id> can decode to
SpaceDetails(id) ==
  { Space(id, CardSeq(c), BoxSeq(b)) : c \in 0..MaxCards, b \in BoxCounts }

\* ---- list items (src/main.go:218-245) ----
NilItem == [type |-> "nil", Space |-> ZeroSpace, title |-> "", description |-> 0, Card |-> ZeroCard]
listItem(space) == [type |-> "listItem", Space |-> space, title |-> "", description |-> 0, Card |-> ZeroCard]
\* description "%d cards" / "%d boxes" is kept as the number it prints
detailListItem(title, n) == [type |-> "detailListItem", Space |-> ZeroSpace, title |-> title, description |-> n, Card |-> ZeroCard]
cardListItem(card) == [type |-> "cardListItem", Space |-> ZeroSpace, title |-> "", description |-> 0, Card |-> card]

SpaceItems(sp) == [i \in 1..Len(sp) |-> listItem(sp[i])]
DetailItems(space) ==
  << detailListItem("Cards", Len(space.Cards)), detailListItem("Boxes", Len(space.Boxes)) >>
CardItems(space) == [i \in 1..Len(space.Cards) |-> cardListItem(space.Cards[i])]

\* ---- messages and commands ----
Msg(type, sp, space, e, k) == [type |-> type, spaces |-> sp, Space |-> space, err |-> e, key |-> k]
NoMsg == Msg("none", <<>>, ZeroSpace, NoError, "")
spacesMsg(sp) == Msg("spacesMsg", sp, ZeroSpace, NoError, "")
spaceDetailsMsg(space) == Msg("spaceDetailsMsg", <<>>, space, NoError, "")
errorMsg(e) == Msg("error", <<>>, ZeroSpace, e, "")
KeyMsg(k) == Msg("KeyMsg", <<>>, ZeroSpace, NoError, k)
OtherMsg(t) == Msg(t, <<>>, ZeroSpace, NoError, "")

Cmd(kind, id) == [kind |-> kind, id |-> id]
NoCmd == Cmd("none", 0)
fetchSpaces == Cmd("fetchSpaces", 0)
fetchSpaceDetails(id) == Cmd("fetchSpaceDetails", id)
Quit == Cmd("Quit", 0)

VARIABLES
  phase,          \* "constructed" (main built the model), "running", "quit"
  currentView,    \* m.currentView
  loading,        \* m.loading
  err,            \* m.err, NoError for nil
  spaces,         \* m.spaces
  selectedSpace,  \* m.selectedSpace
  selectedCard,   \* m.selectedCard
  items,          \* the items held by m.list
  cursor,         \* the index of the highlighted row of m.list (0-based)
  pendingList,    \* fetchSpaces commands issued and not yet answered
  pendingDetail,  \* per space id: fetchSpaceDetails commands issued and not yet answered
  msg,            \* the message handled by the last Update call
  cmd,            \* the fetch / quit command returned by the last Init or Update call
  lastSelected    \* history: ID of the space row on which enter last issued a fetch

vars == << phase, currentView, loading, err, spaces, selectedSpace, selectedCard,
           items, cursor, pendingList, pendingDetail, msg, cmd, lastSelected >>

nav == << currentView, spaces, selectedSpace, selectedCard >>

InFlight ==
  LET RECURSIVE Sum(_)
      Sum(S) == IF S = {} THEN 0
                ELSE LET x == CHOOSE y \in S : TRUE IN pendingDetail[x] + Sum(S \ {x})
  IN pendingList + Sum(SpaceIds)

\* m.list.SelectedItem(): the item under the cursor, nil when there is none
SelectedItem == IF cursor < Len(items) THEN items[cursor + 1] ELSE NilItem

\* m.list.Update(msg): main.go does not determine the resulting index.  Every index
\* past the last row selects nothing, and every handler that replaces the items
\* ends in this call, so Len(items') stands for all of them.
ListUpdate == cursor' \in 0..Len(items')

\* the statements after the switch (src/main.go:138-154): the spinner and the card
\* table hold no navigation state; the list component handles the message
Trailing == ListUpdate /\ cmd' = NoCmd

Init ==
  /\ phase = "constructed"
  /\ currentView = ""
  /\ loading = FALSE
  /\ err = NoError
  /\ spaces = <<>>
  /\ selectedSpace = ZeroSpace
  /\ selectedCard = ZeroCard
  /\ items = <<>>
  /\ cursor = 0
  /\ pendingList = 0
  /\ pendingDetail = [id \in SpaceIds |-> 0]
  /\ msg = NoMsg
  /\ cmd = NoCmd
  /\ lastSelected = 0

\* func (m *model) Init()
ModelInit ==
  /\ phase = "constructed"
  /\ phase' = "running"
  /\ loading' = TRUE
  /\ currentView' = "list"
  /\ cmd' = fetchSpaces
  /\ pendingList' = pendingList + 1
  /\ UNCHANGED << err, spaces, selectedSpace, selectedCard, items, cursor,
                  pendingDetail, msg, lastSelected >>

\* case spacesMsg
UpdateSpacesMsg(sp) ==
  /\ phase = "running"
  /\ pendingList > 0
  /\ pendingList' = pendingList - 1
  /\ msg' = spacesMsg(sp)
  /\ spaces' = sp
  /\ items' = SpaceItems(sp)
  /\ loading' = FALSE
  /\ UNCHANGED << phase, currentView, err, selectedSpace, selectedCard,
                  pendingDetail, lastSelected >>
  /\ Trailing

\* variant of UpdateSpaceDetailsMsg: an answer to a request that is not the
\* latest one is dropped
UpdateSpaceDetailsMsg_IgnoresStale(id, space) ==
  /\ phase = "running"
  /\ pendingDetail[id] > 0
  /\ pendingDetail' = [pendingDetail EXCEPT ![id] = @ - 1]
  /\ msg' = spaceDetailsMsg(space)
  /\ IF id = lastSelected
       THEN /\ selectedSpace' = space
            /\ loading' = FALSE
            /\ currentView' = "details"
            /\ items' = DetailItems(space)
       ELSE UNCHANGED << selectedSpace, loading, currentView, items >>
  /\ UNCHANGED << phase, err, spaces, selectedCard, pendingList, lastSelected >>
  /\ Trailing

\* variant of UpdateSpaceDetailsMsg: the details open with the spinner running
UpdateSpaceDetailsMsg_KeepsLoading(id, space) ==
  /\ phase = "running"
  /\ pendingDetail[id] > 0
  /\ pendingDetail' = [pendingDetail EXCEPT ![id] = @ - 1]
  /\ msg' = spaceDetailsMsg(space)
  /\ selectedSpace' = space
  /\ currentView' = "details"
  /\ items' = DetailItems(space)
  /\ UNCHANGED << phase, loading, err, spaces, selectedCard, pendingList, lastSelected >>
  /\ Trailing

\* case spaceDetailsMsg
UpdateSpaceDetailsMsg(id, space) ==
  /\ phase = "running"
  /\ pendingDetail[id] > 0
  /\ pendingDetail' = [pendingDetail EXCEPT ![id] = @ - 1]
  /\ msg' = spaceDetailsMsg(space)
  /\ selectedSpace' = space
  /\ loading' = FALSE
  /\ currentView' = "details"
  /\ items' = DetailItems(space)
  /\ UNCHANGED << phase, err, spaces, selectedCard, pendingList, lastSelected >>
  /\ Trailing

\* variant of UpdateError: the failure is recorded but the spinner keeps running
UpdateError_KeepsLoading(e) ==
  /\ phase = "running"
  /\ msg' = errorMsg(e)
  /\ err' = e
  /\ UNCHANGED << phase, currentView, loading, spaces, selectedSpace, selectedCard,
                  items, lastSelected >>
  /\ Trailing

\* case error
UpdateError(e) ==
  /\ phase = "running"
  /\ msg' = errorMsg(e)
  /\ err' = e
  /\ loading' = FALSE
  /\ UNCHANGED << phase, currentView, spaces, selectedSpace, selectedCard, items,
                  lastSelected >>
  /\ Trailing

\* a fetchSpaces command fails
ListFetchFails(e) ==
  /\ pendingList > 0
  /\ pendingList' = pendingList - 1
  /\ UNCHANGED pendingDetail
  /\ UpdateError(e)

\* a fetchSpaceDetails command fails
DetailFetchFails(id, e) ==
  /\ pendingDetail[id] > 0
  /\ pendingDetail' = [pendingDetail EXCEPT ![id] = @ - 1]
  /\ UNCHANGED pendingList
  /\ UpdateError(e)

\* variant of KeyQuit: the view is reset before the program quits
KeyQuit_ResetsView(k) ==
  /\ phase = "running"
  /\ msg' = KeyMsg(k)
  /\ cmd' = Quit
  /\ phase' = "quit"
  /\ currentView' = "list"
  /\ UNCHANGED << loading, err, spaces, selectedSpace, selectedCard,
                  items, cursor, pendingList, pendingDetail, lastSelected >>

\* case "ctrl+c", "q"
KeyQuit(k) ==
  /\ phase = "running"
  /\ msg' = KeyMsg(k)
  /\ cmd' = Quit
  /\ phase' = "quit"
  /\ UNCHANGED << currentView, loading, err, spaces, selectedSpace, selectedCard,
                  items, cursor, pendingList, pendingDetail, lastSelected >>

\* variant of EnterList: the view advances as soon as the row is chosen
EnterList_Advances ==
  /\ phase = "running"
  /\ currentView = "list"
  /\ SelectedItem.type = "listItem"
  /\ InFlight < MaxInFlight
  /\ msg' = KeyMsg("enter")
  /\ loading' = TRUE
  /\ currentView' = "details"
  /\ selectedSpace' = SelectedItem.Space
  /\ cmd' = fetchSpaceDetails(SelectedItem.Space.ID)
  /\ pendingDetail' = [pendingDetail EXCEPT ![SelectedItem.Space.ID] = @ + 1]
  /\ lastSelected' = SelectedItem.Space.ID
  /\ UNCHANGED << phase, err, spaces, selectedCard, items, cursor, pendingList >>

\* case "enter", m.currentView == "list", the selected item is a listItem
EnterList ==
  /\ phase = "running"
  /\ currentView = "list"
  /\ SelectedItem.type = "listItem"
  /\ InFlight < MaxInFlight
  /\ msg' = KeyMsg("enter")
  /\ loading' = TRUE
  /\ cmd' = fetchSpaceDetails(SelectedItem.Space.ID)
  /\ pendingDetail' = [pendingDetail EXCEPT ![SelectedItem.Space.ID] = @ + 1]
  /\ lastSelected' = SelectedItem.Space.ID
  /\ UNCHANGED << phase, currentView, err, spaces, selectedSpace, selectedCard,
                  items, cursor, pendingList >>

\* case "enter", m.currentView == "details", the selected item is the Cards row
EnterDetails ==
  /\ phase = "running"
  /\ currentView = "details"
  /\ SelectedItem.type = "detailListItem"
  /\ SelectedItem.title = "Cards"
  /\ msg' = KeyMsg("enter")
  /\ currentView' = "cards"
  /\ items' = CardItems(selectedSpace)
  /\ UNCHANGED << phase, loading, err, spaces, selectedSpace, selectedCard,
                  pendingList, pendingDetail, lastSelected >>
  /\ Trailing

\* variant of EnterCards: the card view opens without a card being stored
EnterCards_KeepsCard ==
  /\ phase = "running"
  /\ currentView = "cards"
  /\ SelectedItem.type = "cardListItem"
  /\ msg' = KeyMsg("enter")
  /\ currentView' = "cardDetails"
  /\ cmd' = NoCmd
  /\ UNCHANGED << phase, loading, err, spaces, selectedSpace, selectedCard, items,
                  cursor, pendingList, pendingDetail, lastSelected >>

\* case "enter", m.currentView == "cards", the selected item is a cardListItem
EnterCards ==
  /\ phase = "running"
  /\ currentView = "cards"
  /\ SelectedItem.type = "cardListItem"
  /\ msg' = KeyMsg("enter")
  /\ selectedCard' = SelectedItem.Card
  /\ currentView' = "cardDetails"
  /\ cmd' = NoCmd
  /\ UNCHANGED << phase, loading, err, spaces, selectedSpace, items, cursor,
                  pendingList, pendingDetail, lastSelected >>

\* variant of EnterNone: enter without a usable row starts the spinner
EnterNone_SetsLoading ==
  /\ phase = "running"
  /\ ~ (currentView = "list" /\ SelectedItem.type = "listItem")
  /\ ~ (currentView = "details" /\ SelectedItem.type = "detailListItem"
                                /\ SelectedItem.title = "Cards")
  /\ ~ (currentView = "cards" /\ SelectedItem.type = "cardListItem")
  /\ msg' = KeyMsg("enter")
  /\ loading' = TRUE
  /\ UNCHANGED << phase, currentView, err, spaces, selectedSpace,
                  selectedCard, items, pendingList, pendingDetail, lastSelected >>
  /\ Trailing

\* variant of EnterNone: enter in the card view goes back to the card list
EnterNone_LeavesCard ==
  /\ phase = "running"
  /\ ~ (currentView = "list" /\ SelectedItem.type = "listItem")
  /\ ~ (currentView = "details" /\ SelectedItem.type = "detailListItem"
                                /\ SelectedItem.title = "Cards")
  /\ ~ (currentView = "cards" /\ SelectedItem.type = "cardListItem")
  /\ msg' = KeyMsg("enter")
  /\ currentView' = (IF currentView = "cardDetails" THEN "cards" ELSE currentView)
  /\ UNCHANGED << phase, loading, err, spaces, selectedSpace,
                  selectedCard, items, pendingList, pendingDetail, lastSelected >>
  /\ Trailing

\* case "enter" when no branch applies
EnterNone ==
  /\ phase = "running"
  /\ ~ (currentView = "list" /\ SelectedItem.type = "listItem")
  /\ ~ (currentView = "details" /\ SelectedItem.type = "detailListItem"
                                /\ SelectedItem.title = "Cards")
  /\ ~ (currentView = "cards" /\ SelectedItem.type = "cardListItem")
  /\ msg' = KeyMsg("enter")
  /\ UNCHANGED << phase, currentView, loading, err, spaces, selectedSpace,
                  selectedCard, items, pendingList, pendingDetail, lastSelected >>
  /\ Trailing

\* case "b", m.currentView == "details"
BackDetails ==
  /\ phase = "running"
  /\ currentView = "details"
  /\ msg' = KeyMsg("b")
  /\ currentView' = "list"
  /\ items' = SpaceItems(spaces)
  /\ UNCHANGED << phase, loading, err, spaces, selectedSpace, selectedCard,
                  pendingList, pendingDetail, lastSelected >>
  /\ Trailing

\* variant of BackCards: back from the cards jumps to the space list
BackCards_ToList ==
  /\ phase = "running"
  /\ currentView = "cards"
  /\ msg' = KeyMsg("b")
  /\ currentView' = "list"
  /\ items' = SpaceItems(spaces)
  /\ UNCHANGED << phase, loading, err, spaces, selectedSpace, selectedCard,
                  pendingList, pendingDetail, lastSelected >>
  /\ Trailing

\* variant of BackCards: the card rows stay under the details view
BackCards_KeepsRows ==
  /\ phase = "running"
  /\ currentView = "cards"
  /\ msg' = KeyMsg("b")
  /\ currentView' = "details"
  /\ UNCHANGED << phase, loading, err, spaces, selectedSpace, selectedCard, items,
                  pendingList, pendingDetail, lastSelected >>
  /\ Trailing

\* case "b", m.currentView == "cards"
BackCards ==
  /\ phase = "running"
  /\ currentView = "cards"
  /\ msg' = KeyMsg("b")
  /\ currentView' = "details"
  /\ items' = DetailItems(selectedSpace)
  /\ UNCHANGED << phase, loading, err, spaces, selectedSpace, selectedCard,
                  pendingList, pendingDetail, lastSelected >>
  /\ Trailing

\* case "b", m.currentView == "cardDetails"
BackCardDetails ==
  /\ phase = "running"
  /\ currentView = "cardDetails"
  /\ msg' = KeyMsg("b")
  /\ currentView' = "cards"
  /\ items' = CardItems(selectedSpace)
  /\ UNCHANGED << phase, loading, err, spaces, selectedSpace, selectedCard,
                  pendingList, pendingDetail, lastSelected >>
  /\ Trailing

\* variant of BackNone: back in the space list stops the loading indicator
BackNone_StopsLoading ==
  /\ phase = "running"
  /\ currentView \notin {"details", "cards", "cardDetails"}
  /\ msg' = KeyMsg("b")
  /\ loading' = FALSE
  /\ UNCHANGED << phase, currentView, err, spaces, selectedSpace,
                  selectedCard, items, pendingList, pendingDetail, lastSelected >>
  /\ Trailing

\* case "b" in the list view: no branch applies
BackNone ==
  /\ phase = "running"
  /\ currentView \notin {"details", "cards", "cardDetails"}
  /\ msg' = KeyMsg("b")
  /\ UNCHANGED << phase, currentView, loading, err, spaces, selectedSpace,
                  selectedCard, items, pendingList, pendingDetail, lastSelected >>
  /\ Trailing

\* any other key: only the list component sees it
KeyOther(k) ==
  /\ phase = "running"
  /\ msg' = KeyMsg(k)
  /\ UNCHANGED << phase, currentView, loading, err, spaces, selectedSpace,
                  selectedCard, items, pendingList, pendingDetail, lastSelected >>
  /\ Trailing

\* variant of KeyEsc: esc is handled like "b"
KeyEsc_GoesBack ==
  /\ phase = "running"
  /\ msg' = KeyMsg("esc")
  /\ currentView' = (CASE currentView = "details" -> "list"
                       [] currentView = "cards" -> "details"
                       [] currentView = "cardDetails" -> "cards"
                       [] OTHER -> currentView)
  /\ items' = (CASE currentView = "details" -> SpaceItems(spaces)
                 [] currentView = "cards" -> DetailItems(selectedSpace)
                 [] currentView = "cardDetails" -> CardItems(selectedSpace)
                 [] OTHER -> items)
  /\ UNCHANGED << phase, loading, err, spaces, selectedSpace, selectedCard,
                  pendingList, pendingDetail, lastSelected >>
  /\ Trailing

\* key "esc": no case of the switch matches it (src/main.go:84-135), so only the
\* components see it.  Whether the list component answers it with tea.Quit is
\* decided by its key map, not by main.go: both outcomes are kept.
KeyEsc ==
  /\ phase = "running"
  /\ msg' = KeyMsg("esc")
  /\ UNCHANGED << currentView, loading, err, spaces, selectedSpace, selectedCard,
                  items, pendingList, pendingDetail, lastSelected >>
  /\ ListUpdate
  /\ \/ cmd' = NoCmd /\ phase' = phase
     \/ cmd' = Quit /\ phase' = "quit"

\* case tea.WindowSizeMsg, and messages no case matches (spinner.TickMsg)
UpdateOther(t) ==
  /\ phase = "running"
  /\ msg' = OtherMsg(t)
  /\ UNCHANGED << phase, currentView, loading, err, spaces, selectedSpace,
                  selectedCard, items, pendingList, pendingDetail, lastSelected >>
  /\ Trailing

QuitKeys == {"ctrl+c", "q"}
OtherKeys == {"up", "down"}
OtherMsgs == {"WindowSizeMsg", "spinner.TickMsg"}

Next ==
  \/ ModelInit
  \/ \E k \in OtherKeys : KeyOther(k)
  \/ \E sp \in SpaceLists : UpdateSpacesMsg(sp)
  \/ \E id \in SpaceIds : \E space \in SpaceDetails(id) : UpdateSpaceDetailsMsg(id, space)
  \/ \E e \in Errors : ListFetchFails(e)
  \/ \E id \in SpaceIds : \E e \in Errors : DetailFetchFails(id, e)
  \/ \E k \in QuitKeys : KeyQuit(k)
  \/ EnterList
  \/ EnterDetails
  \/ EnterCards
  \/ EnterNone
  \/ BackDetails
  \/ BackCards
  \/ BackCardDetails
  \/ BackNone
  \/ KeyEsc
  \/ \E t \in OtherMsgs : UpdateOther(t)

Spec == Init /\ [][Next]_vars

\* ---------------------------------------------------------------------------
\* Properties
\* ---------------------------------------------------------------------------
Range(f) == { f[i] : i \in DOMAIN f }

\* this step is an Update call handling the key k
KeyStep(k) == phase = "running" /\ msg' = KeyMsg(k)
\* this step is an Update call handling a message of type t
MsgStep(t) == phase = "running" /\ msg'.type = t
\* this step is enter on a valid row of the space list
SelectSpaceStep == KeyStep("enter") /\ currentView = "list" /\ cursor < Len(spaces)
\* the step returns no fetch command and no fetch is started or answered
NoFetch == cmd' = NoCmd /\ UNCHANGED << pendingList, pendingDetail >>
\* the step starts exactly one detail fetch, for id
OneDetailFetch(id) ==
  /\ cmd' = fetchSpaceDetails(id)
  /\ pendingDetail' = [pendingDetail EXCEPT ![id] = @ + 1]
  /\ pendingList' = pendingList

\* C1 as stated: enter on a valid row i of SpaceList moves the view to SpaceDetail
\* on that same event, sets selectedSpace to spaces[i], sets loading and issues
\* exactly one detail fetch for spaces[i].ID.
C1_SelectAdvancesView ==
  [][SelectSpaceStep =>
       /\ currentView' = "details"
       /\ selectedSpace' = spaces[cursor + 1]
       /\ loading'
       /\ OneDetailFetch(spaces[cursor + 1].ID)]_vars

\* C1 amended: enter on a valid row i of SpaceList sets loading and issues exactly
\* one detail fetch for spaces[i].ID while view and selectedSpace stay as they
\* were; the view leaves SpaceList for SpaceDetail only in the step that handles a
\* detail fetch-success, which sets selectedSpace to the fetched space.
C1_SelectIssuesFetch ==
  [][/\ SelectSpaceStep =>
          /\ loading'
          /\ OneDetailFetch(spaces[cursor + 1].ID)
          /\ currentView' = "list"
          /\ selectedSpace' = selectedSpace
     /\ (currentView = "list" /\ currentView' # "list") =>
          /\ MsgStep("spaceDetailsMsg")
          /\ currentView' = "details"
          /\ selectedSpace' = msg'.Space]_vars

C1_Witness ==
  /\ msg = KeyMsg("enter")
  /\ currentView = "list"
  /\ cursor < Len(spaces)
  /\ cmd = fetchSpaceDetails(spaces[cursor + 1].ID)
  /\ loading

\* C2: in every reachable state at most one fetch is outstanding.
C2_AtMostOneFetch == InFlight <= 1

\* C3: whenever the view is SpaceDetail, CardList or CardDetail, selectedSpace is
\* the space of the row most recently selected in SpaceList, and in CardDetail
\* selectedCard is the card of a row of that space's card list.
C3_SelectionFollowsLastSelect ==
  /\ currentView \in {"details", "cards", "cardDetails"} => selectedSpace.ID = lastSelected
  /\ currentView = "cardDetails" => cardListItem(selectedCard) \in Range(CardItems(selectedSpace))

\* C4: after a failure followed by a select that issues a detail fetch, lastError
\* is empty (the event that starts a fetch clears it).
C4_FetchStartClearsError ==
  (msg = KeyMsg("enter") /\ cmd.kind = "fetchSpaceDetails") => err = NoError

\* C5: a fetch-failure event sets lastError to the failure and loading to false
\* and leaves view, spaces, selectedSpace and selectedCard unchanged.
C5_FailureKeepsView ==
  [][MsgStep("error") =>
       /\ err' = msg'.err
       /\ err' \in Errors
       /\ ~ loading'
       /\ UNCHANGED nav]_vars

C5_Witness ==
  /\ msg.type = "error"
  /\ err = msg.err
  /\ ~ loading
  /\ currentView = "cards"

Predecessor(view) ==
  CASE view = "details" -> "list"
    [] view = "cards" -> "details"
    [] view = "cardDetails" -> "cards"
    [] OTHER -> view

\* C6: back in SpaceDetail, CardList or CardDetail moves the view to exactly its
\* predecessor, issues no fetch, leaves spaces and selectedSpace unchanged, and on
\* return to SpaceList the rows are the stored spaces in their order.
C6_BackToPredecessor ==
  [][(KeyStep("b") /\ currentView \in {"details", "cards", "cardDetails"}) =>
       /\ currentView' = Predecessor(currentView)
       /\ NoFetch
       /\ spaces' = spaces
       /\ selectedSpace' = selectedSpace
       /\ loading' = loading
       /\ currentView' = "list" =>
            /\ Len(items') = Len(spaces)
            /\ \A i \in 1..Len(spaces) :
                 items'[i].type = "listItem" /\ items'[i].Space = spaces[i]]_vars

\* back from the details of a second space, with another fetch still running
C6_Witness ==
  /\ msg = KeyMsg("b")
  /\ currentView = "list"
  /\ selectedSpace.ID # 0
  /\ Len(spaces) >= 2
  /\ items = SpaceItems(spaces)
  /\ InFlight > 0

\* C7: loading is true whenever a fetch has been issued and not yet answered.
C7_LoadingWhileOutstanding == InFlight > 0 => loading

\* C8: a quit key ends the session in any view, whatever loading and lastError
\* are, and changes no navigation state.
C8_QuitEndsSession ==
  /\ [](phase = "running" => \A k \in QuitKeys : ENABLED KeyQuit(k))
  /\ [][(phase = "running" /\ msg'.type = "KeyMsg" /\ msg'.key \in QuitKeys) =>
          /\ phase' = "quit"
          /\ cmd' = Quit
          /\ UNCHANGED << nav, loading, err, items, cursor >>
          /\ UNCHANGED << pendingList, pendingDetail >>]_vars

C8_Witness ==
  /\ phase = "quit"
  /\ msg.key \in QuitKeys
  /\ currentView = "cardDetails"
  /\ err # NoError

\* C9: back in SpaceList is a no-op on view, spaces, selections, loading and
\* lastError and issues no fetch.
C9_BackInListIsNoOp ==
  [][(KeyStep("b") /\ currentView = "list") =>
       /\ UNCHANGED << nav, loading, err >>
       /\ NoFetch]_vars

\* back pressed in the space list while the first fetch is still running
C9_Witness ==
  /\ msg = KeyMsg("b")
  /\ currentView = "list"
  /\ selectedSpace = ZeroSpace
  /\ loading
  /\ InFlight > 0

\* C10 is not settled here: the index of the highlighted row is state of the list
\* component, which this model leaves free (see ListUpdate).

\* a key event other than a quit key is processed
KeyEvent ==
  \/ EnterList \/ EnterDetails \/ EnterCards \/ EnterNone
  \/ BackDetails \/ BackCards \/ BackCardDetails \/ BackNone
  \/ \E k \in OtherKeys : KeyOther(k)
\* a fetch can be issued by the next key event, or after one, two or three others
CanFetch0 == ENABLED EnterList
CanFetch1 == CanFetch0 \/ ENABLED (KeyEvent /\ CanFetch0')
CanFetch2 == CanFetch1 \/ ENABLED (KeyEvent /\ CanFetch1')
CanFetch3 == CanFetch2 \/ ENABLED (KeyEvent /\ CanFetch2')

\* C11: after any fetch failure, of the initial list fetch or of a detail fetch,
\* some sequence of key events issues a new fetch.  (A state with MaxInFlight
\* fetches running is left out: there the model, not the program, stops.)
C11_RetryPossible ==
  (phase = "running" /\ err # NoError /\ InFlight < MaxInFlight) => CanFetch3

\* C12 as stated: esc in SpaceDetail, CardList or CardDetail moves the view up
\* exactly one level, as b does.
C12_EscGoesBack ==
  [][(KeyStep("esc") /\ currentView \in {"details", "cards", "cardDetails"}) =>
       currentView' = Predecessor(currentView)]_vars

\* C12 amended: esc is not a back key.  Processed in any view it leaves view,
\* spaces, selections, rows, loading and lastError unchanged and issues no fetch;
\* b is the only key that moves the view up one level.
C12_EscKeepsView ==
  [][/\ KeyStep("esc") =>
          /\ UNCHANGED << nav, items, loading, err >>
          /\ cmd'.kind \in {"none", "Quit"}
          /\ UNCHANGED << pendingList, pendingDetail >>
     /\ (MsgStep("KeyMsg") /\ currentView \in {"details", "cards", "cardDetails"}
           /\ currentView' = Predecessor(currentView)) => msg'.key = "b"]_vars

C12_Witness ==
  /\ msg = KeyMsg("esc")
  /\ currentView = "cardDetails"
  /\ phase = "running"

\* position of a view in the chain list - details - cards - cardDetails
Level(view) ==
  CASE view = "list" -> 0
    [] view = "details" -> 1
    [] view = "cards" -> 2
    [] view = "cardDetails" -> 3
    [] OTHER -> 0

Adjacent(v, w) == Level(v) = Level(w) + 1 \/ Level(w) = Level(v) + 1

\* C13: every change of view made by Update is a single step between adjacent
\* levels of the chain, and a detail fetch-success processed in the cards or
\* cardDetails view leaves the view as it is.
C13_AdjacentViewChanges ==
  [][phase = "running" =>
       /\ currentView' # currentView => Adjacent(currentView, currentView')
       /\ (MsgStep("spaceDetailsMsg") /\ currentView \in {"cards", "cardDetails"}) =>
            currentView' = currentView]_vars

\* the rows the navigation state calls for
Projection ==
  CASE currentView = "list" -> SpaceItems(spaces)
    [] currentView = "details" -> DetailItems(selectedSpace)
    [] currentView \in {"cards", "cardDetails"} -> CardItems(selectedSpace)
    [] OTHER -> << >>

\* C14: in every state the rows held by the list are the projection of the
\* navigation state: the stored spaces in order in the list view, the two rows
\* Cards and Boxes with the counts of selectedSpace in the details view, the cards
\* of selectedSpace in order in the cards view and behind the cardDetails view.
C14_RowsAreProjection ==
  /\ items = Projection
  /\ currentView = "details" =>
       /\ Len(items) = 2
       /\ items[1].title = "Cards" /\ items[1].description = Len(selectedSpace.Cards)
       /\ items[2].title = "Boxes" /\ items[2].description = Len(selectedSpace.Boxes)

\* rows were rebuilt by a back key out of the cards view of a space with a card
C14_Witness ==
  /\ msg = KeyMsg("b")
  /\ currentView = "details"
  /\ Len(selectedSpace.Cards) > 0

\* C15: every detail fetch-success and every fetch-failure is applied whatever
\* request it answers: after a detail success selectedSpace is the payload and
\* loading is false, after a failure err is the failure and loading is false.
C15_ResponsesAlwaysApplied ==
  [][/\ MsgStep("spaceDetailsMsg") => (selectedSpace' = msg'.Space /\ ~ loading')
     /\ MsgStep("error") => (err' = msg'.err /\ err' # NoError /\ ~ loading')]_vars

\* the answer to the earlier of two requests arrived last and replaced the data
\* of the later one
C15_Witness ==
  /\ msg = spaceDetailsMsg(selectedSpace)
  /\ selectedSpace.ID # lastSelected
  /\ lastSelected # 0
  /\ InFlight = 0
  /\ err = NoError
  /\ currentView = "details"

\* every space a detail fetch can deliver
Delivered == UNION { SpaceDetails(id) : id \in SpaceIds }

\* C16: in the details, cards and cardDetails views selectedSpace is a space
\* delivered by a detail fetch-success, and in the cardDetails view selectedCard
\* is one of the cards of selectedSpace.
C16_ViewHasItsSelection ==
  /\ currentView \in {"details", "cards", "cardDetails"} =>
       (selectedSpace # ZeroSpace /\ selectedSpace \in Delivered)
  /\ currentView = "cardDetails" =>
       (selectedCard # ZeroCard /\ selectedCard \in Range(selectedSpace.Cards))
  /\ selectedSpace # ZeroSpace => selectedSpace \in Delivered

\* a card of the delivered space was opened
C16_Witness ==
  /\ currentView = "cardDetails"
  /\ msg = KeyMsg("enter")
  /\ selectedCard \in Range(selectedSpace.Cards)

\* the step processes the answer, success or failure, of a fetch
Completion == phase = "running" /\ msg'.type \in {"spacesMsg", "spaceDetailsMsg", "error"}

\* loading is cleared only by a step that processes a fetch answer
C17_OnlyCompletionClears == [][(loading /\ ~ loading') => Completion]_vars

\* C17: loading goes from true to false only when a fetch-success or
\* fetch-failure is processed, and as long as a fetch that was outstanding
\* before a step is still outstanding after it, loading stays true.
C17_LoadingUntilCompletion ==
  [][/\ (loading /\ ~ loading') => Completion
     /\ (loading /\ InFlight >= (IF Completion THEN 2 ELSE 1)) => loading']_vars

\* C18: enter on an empty row set changes neither the view, the selections,
\* loading nor err and issues no fetch; enter on the Cards row of the details
\* view opens the cards view with one row per card, also when there is no card.
C18_EnterOnEmptyIsNoOp ==
  [][/\ (KeyStep("enter") /\ Len(items) = 0) =>
          (UNCHANGED << nav, loading, err, items >> /\ NoFetch)
     /\ (KeyStep("enter") /\ currentView = "details" /\ SelectedItem.title = "Cards") =>
          /\ currentView' = "cards"
          /\ items' = CardItems(selectedSpace)
          /\ Len(items') = Len(selectedSpace.Cards)
          /\ UNCHANGED << spaces, selectedSpace, selectedCard, loading, err >>
          /\ NoFetch]_vars

\* the Cards row of a space without cards was selected and enter was pressed on
\* the empty card list
C18_Witness ==
  /\ msg = KeyMsg("enter")
  /\ currentView = "cards"
  /\ Len(selectedSpace.Cards) = 0
  /\ Len(items) = 0

\* C19: enter on the Boxes row of the details view, and enter in the cardDetails
\* view, leave the view, selectedSpace, selectedCard, loading and err unchanged
\* and issue no fetch.
C19_EnterWithoutTarget ==
  [][(KeyStep("enter") /\ \/ currentView = "details" /\ SelectedItem.title = "Boxes"
                          \/ currentView = "cardDetails") =>
       (UNCHANGED << nav, loading, err, items >> /\ NoFetch)]_vars

\* enter was pressed on the Boxes row of a space that has a box
C19_Witness ==
  /\ msg = KeyMsg("enter")
  /\ currentView = "details"
  /\ SelectedItem.title = "Boxes"
  /\ Len(selectedSpace.Boxes) > 0

\* C20: in every state loading = true implies that the view is the space list.
C20_LoadingOnlyInList == loading => currentView = "list"

\* a detail fetch was started from the list after an earlier one had been shown
C20_Witness ==
  /\ loading
  /\ currentView = "list"
  /\ msg = KeyMsg("enter")
  /\ selectedSpace # ZeroSpace
  /\ pendingDetail[lastSelected] > 0

====
